---- MODULE Spec2Model ----
(***************************************************************************)
(* logthing: the log entry point, the dispatcher's bounded queue, its      *)
(* single consumer worker, the flush to the registered log writers and    *)
(* the InitDispatcher / Close lifecycle.                                   *)
(***************************************************************************)
EXTENDS Integers, Sequences, FiniteSets, TLC

\* ------------------------------------------------------------------ bounds
\* capacity of logMessageCh in the model (make(chan *logMsg, 4096) in the code)
QueueSize == 2
\* number of Log calls of one run of the dispatcher specification
MaxMsgs == 3
\* number of Log calls of one run of the specification of failing Inits
MaxInitMsgs == 2
\* number of InitDispatcher calls of one run
MaxInits == 2
\* timestamps are 1..MaxTime; 0 is the zero time.Time
MaxTime == 2
\* number of Log calls of one run of the specification of a saturated queue
MaxSatMsgs == 4
\* number of Log calls of one run of the specification of rejected calls
MaxFrameMsgs == 4
\* number of Log calls of one run of the specification with a fair worker
MaxLiveMsgs == 3
\* number of SetSeverity and append-output calls on one message
MaxOps == 2
\* number of values handed to one append-output call
MaxValues == 1

\* --------------------------------------------------------------- constants
SeverityNotApplied == 8
SeverityTrace == 7
SeverityError == 3
SeverityEmergency == 0

Severities == SeverityEmergency..SeverityTrace

\* the levels a caller hands to SetSeverity and AppendOutput
Levels == { SeverityEmergency, SeverityError, SeverityTrace, SeverityNotApplied }

\* the nil entry of ld.logWriters
Nil == "nil"

\* the nil LogMsg interface value
NilMsg == [ isNil |-> TRUE ]

\* the caller holds no message under construction
NoMsg == [ none |-> TRUE ]

\* error values are wrap chains, outermost first; the nil error is the empty chain
NilError == << >>
ErrWriterDisable == << "Writer disbaled" >>
ErrWrappedDisable == << "Creting signature failed", "Writer disbaled" >>
ErrSendFailed == << "Sending LogMessage to azure failed" >>

\* what a writer's WriteLogMessages may return
WriteResults == { NilError, ErrSendFailed, ErrWriterDisable, ErrWrappedDisable }

\* the keys logDispatcher.log sets on every message
ReservedKeys == { "type", "timestamp", "severity", "trackingID", "output" }

\* the writers an application registers, in the order it passes them
Writers == << "w1", "w2", "w3" >>

WriterSet == { Writers[i] : i \in 1..Len(Writers) }

\* ---------------------------------------------------------------- state
VARIABLES
    config,          \* configStruct: logMaxSeverity, whitelistLogTypes
    scenario,        \* which inputs the run draws from, fixed by Init
    ld,              \* TRUE when the default dispatcher pointer is non-nil
    logMessageCh,    \* buffered content of ld.logMessageCh
    chClosed,        \* ld.logMessageCh has been closed
    done,            \* ld.done has been closed
    logWriters,      \* ld.logWriters, Nil for a disabled writer
    initErr,         \* the error InitDispatcher returned last (TRUE: non-nil)
    wpc,             \* the worker: "none", "select", "write", "exit"
    logMessages,     \* the worker's pending batch
    raw,             \* the flush in progress: the marshalled messages, sorted
    wi,              \* the flush in progress: index of the writer being called
    final,           \* the flush in progress is the one after the channel closed
    apc,             \* the lifecycle caller: "idle", "Close", "InitDispatcher"
    args,            \* the arguments of the InitDispatcher call in progress
    panicked,        \* a goroutine panicked: the process is gone
    overflowCounter, \* number of messages dropped on a full queue
    nextId,          \* identity of the next message handed to Log
    inits,           \* number of InitDispatcher calls made
    logRet,          \* what Log returned, per message
    logged,          \* type and severity of the messages handed to Log
    duringWrite,     \* the Log calls made while the worker was in a writer
                     \* (recorded in the scenario of the saturated queue)
    console,         \* the messages printLogMsg wrote to stdout/stderr
    msg,             \* the message a caller is building, NoMsg when none
    ops,             \* the SetSeverity and append-output calls made on msg
    closeSnap,       \* messages Log had accepted when Close() was called
    closeReturned,   \* Close() has returned
    flushed,         \* ids of the messages passed to writeLogMessages
    flushWriters,    \* ld.logWriters when the last flush began
    flushCalls,      \* the WriteLogMessages calls of the last flush, in order
    failedBatch,     \* per writer: ids of its last batch, if that call failed
    disabled,        \* writers that returned ErrWriterDisable
    initFailed,      \* writers whose Init failed for this dispatcher
    closeCount       \* per writer: number of Close() calls of this lifecycle

vars == << config, scenario, ld, logMessageCh, chClosed, done, logWriters, initErr,
           wpc, logMessages, raw, wi, final, apc, args, panicked,
           overflowCounter, nextId, inits, logRet, logged, duringWrite,
           console, msg, ops, closeSnap, closeReturned, flushed, flushWriters, flushCalls, failedBatch,
           disabled, initFailed, closeCount >>

dispatcherVars == << ld, logMessageCh, chClosed, done, logWriters, initErr >>
workerVars == << wpc, logMessages, raw, wi, final >>
flushHist == << flushed, flushWriters, flushCalls, failedBatch, disabled >>
logHist == << nextId, logRet, logged, duringWrite, overflowCounter, console >>
builderVars == << msg, ops >>

\* ------------------------------------------------------------- helpers
Range(s) == { s[i] : i \in 1..Len(s) }

Ids(s) == { s[i].id : i \in 1..Len(s) }

IdSeq(s) == [ i \in 1..Len(s) |-> s[i].id ]

TimestampSeq(s) == [ i \in 1..Len(s) |-> s[i].timestamp ]

\* a SetSeverity that takes any level
SetSeverity_assign(current, severity) == severity

\* logMsg.SetSeverity: only a numerically lower level takes effect
SetSeverity(current, severity) ==
    IF severity < current THEN severity ELSE current

\* the drop condition without the whitelist lookup
severityAboveMax_noWhitelist(severity, logMessageType, cfg) ==
    /\ severity > cfg.logMaxSeverity
    /\ logMessageType # ""

\* logDispatcher.log, the drop condition: severity above logMaxSeverity, and
\* a non-empty type that is not found in whitelistLogTypes
severityAboveMax(severity, logMessageType, cfg) ==
    /\ severity > cfg.logMaxSeverity
    /\ logMessageType # ""
    /\ logMessageType \notin cfg.whitelistLogTypes

\* a send that is ready one message beyond the buffer
sendReady_offByOne(ch) == Len(ch) <= QueueSize

\* select { case ld.logMessageCh <- msg: ... default: ... }: the send case
\* is ready when the buffer has room
sendReady(ch) == Len(ch) < QueueSize

\* comparison of the error with == instead of errors.Is
errorsIs_equal(err, target) == err = target

\* errors.Is: target is the error itself or one it wraps
errorsIs(err, target) ==
    \E i \in 1..Len(err) : SubSeq(err, i, Len(err)) = target

\* the less function handed to sort.Slice
timestampBefore(a, b) == a.timestamp < b.timestamp

\* the slice left in arrival order
SortSlice_arrival(s) == { s }

\* sort.Slice(logMessages, less): some permutation of the slice in which no
\* element is before one less than it; the order of equal ones is not fixed
SortSlice(s) ==
    LET n == Len(s)
        bij == { p \in [1..n -> 1..n] : \A i, j \in 1..n : i # j => p[i] # p[j] }
        perms == { [ i \in 1..n |-> s[p[i]] ] : p \in bij }
    IN { q \in perms :
           \A i, j \in 1..n : i < j => ~timestampBefore(q[j], q[i]) }

\* json.Marshal(logMessage.Properties()) succeeded
marshalOK(m) == m.marshal

\* writeLogMessages: the messages that marshal, compacted in order
rawLogMessages(sorted) == SelectSeq(sorted, marshalOK)

\* for i, lw := range ld.logWriters { if lw != nil {...} }: the first index
\* from i on that holds a writer, Len+1 when the loop is over
NextWriter(lws, i) ==
    LET live == { j \in i..Len(lws) : lws[j] # Nil }
    IN IF live = {} THEN Len(lws) + 1
       ELSE CHOOSE j \in live : \A k \in live : j <= k

\* every writer registered, whatever its Init returned
initWriters_all(lws, fails) == lws

\* newLogDispatcher: the writers whose Init returned nil, appended in order
initWriters(lws, fails) ==
    LET ok(w) == w \notin fails IN SelectSeq(lws, ok)

\* newLogDispatcher: err is non-nil when some Init failed
initError(lws, fails) ==
    \E i \in 1..Len(lws) : lws[i] \in fails

\* a close that leaves the writers open
closeWriters_none(lws, cnt) == cnt

\* logDispatcher.close, the loop over ld.logWriters: Close() of each non-nil one
closeWriters(lws, cnt) ==
    [ w \in DOMAIN cnt |->
        cnt[w] + Cardinality({ i \in 1..Len(lws) : lws[i] = w }) ]

\* a timestamps array that holds an entry for every message of the batch,
\* marshalled or not
timestamps_all(sorted) == TimestampSeq(sorted)

\* writeLogMessages: timestamps[j] is set, and j advanced, together with
\* rawLogMessages[j], for the messages that marshal; timestamps[:j]
timestamps(sorted) == TimestampSeq(SelectSeq(sorted, marshalOK))

\* lw.WriteLogMessages(rawLogMessages, timestamps) for lw = lws[i]
theCall(lws, i, r, ts) ==
    [ writer |-> lws[i], batch |-> IdSeq(r), timestamps |-> ts,
      payload |-> [ k \in 1..Len(r) |-> r[k].properties ] ]

NoIds == [ w \in WriterSet |-> {} ]

\* ------------------------------------------------------------- scenarios
\* the messages a caller can build: NewLogMsg starts at SeverityTrace and
\* SetSeverity only lowers; a zero timestamp is one the caller did not set
Messages(types, sevs) ==
    [ logMessageType : types, severity : sevs, timestamp : 0..MaxTime,
      marshal : BOOLEAN, output : { << 1 >> }, properties : { {} },
      trackingID : { "" } ]

\* config as initConfig leaves it: whitelistLogTypes never holds "";
\* whitelistProperties is the setting of LOGTHING_WHITELIST_PROPERTIES, which
\* the README documents and initConfig does not read
ConfigsProperties(maxSevs, whitelists, printSevs, propertySets) ==
    [ logMaxSeverity : maxSevs, whitelistLogTypes : whitelists,
      printMaxSeverity : printSevs, whitelistProperties : propertySets ]

\* config without a whitelist of properties
ConfigsPrint(maxSevs, whitelists, printSevs) ==
    ConfigsProperties(maxSevs, whitelists, printSevs, { {} })

\* config with printMaxSeverity at its default
Configs(maxSevs, whitelists) ==
    ConfigsPrint(maxSevs, whitelists, { SeverityTrace })

\* the scenarios a run draws its inputs from:
\*   "dispatcher": one writer, messages that pass the threshold, some of
\*                 which fail to marshal
\*   "policy":     every type and severity, one message and one writer
\*   "writers":    three writers, any of which may fail its Init
\*   "saturated":  one writer, more messages than the queue and a batch hold
\*   "frame":      one writer, timestamped messages that pass the threshold
\*                 and messages without timestamp that do not, enough of
\*                 them to fill the queue
\*   "live":       one writer, a few messages, the worker scheduled fairly
\*   "builder":    one writer, one message, built call by call
\*   "payload":    one writer, one message with properties, some of them
\*                 stored under reserved keys, and with or without tracking id
\* the messages handed to Log
Inputs ==
    CASE scenario = "dispatcher" -> Messages({ "x" }, { SeverityError })
      [] scenario = "policy" ->
           { NilMsg } \cup { m \in Messages({ "", "a", "x" }, Severities) :
                               m.marshal /\ m.timestamp = 0 }
      [] scenario = "writers" ->
           { m \in Messages({ "x" }, { SeverityError }) :
               m.marshal /\ m.timestamp = 0 }
      [] scenario = "saturated" ->
           { m \in Messages({ "x" }, { SeverityError }) :
               m.marshal /\ m.timestamp = 1 }
      [] scenario = "frame" ->
           { m \in Messages({ "x" }, { SeverityError, SeverityTrace }) :
               /\ m.marshal
               /\ m.timestamp = IF m.severity = SeverityTrace THEN 0 ELSE 1 }
      [] scenario = "live" ->
           { m \in Messages({ "x" }, { SeverityError }) :
               m.marshal /\ m.timestamp = 1 }
      [] scenario = "builder" ->
           IF msg = NoMsg THEN {}
           ELSE { [ logMessageType |-> msg.logMessageType,
                    severity |-> msg.severity, timestamp |-> 0,
                    marshal |-> TRUE, output |-> msg.output,
                    properties |-> msg.properties, trackingID |-> "" ] }
      [] scenario = "payload" ->
           { [ m EXCEPT !.properties = p, !.trackingID = t ] :
               m \in { n \in Messages({ "x" }, { SeverityError }) :
                         n.marshal /\ n.timestamp = 0 },
               p \in { u \cup r :
                          u \in SUBSET { "foo", "bar" },
                          r \in { {}, { "trackingID" },
                                  ReservedKeys \ { "trackingID" },
                                  ReservedKeys } },
               t \in { "", "t" } }

\* the number of Log calls
MsgBudget ==
    CASE scenario = "dispatcher" -> MaxMsgs
      [] scenario = "policy" -> 1
      [] scenario = "writers" -> MaxInitMsgs
      [] scenario = "saturated" -> MaxSatMsgs
      [] scenario = "frame" -> MaxFrameMsgs
      [] scenario = "live" -> MaxLiveMsgs
      [] scenario = "builder" -> 1
      [] scenario = "payload" -> 1

\* the writers passed to InitDispatcher
WriterList ==
    CASE scenario = "dispatcher" -> SubSeq(Writers, 1, 1)
      [] scenario = "policy" -> SubSeq(Writers, 1, 1)
      [] scenario = "writers" -> Writers
      [] scenario = "saturated" -> SubSeq(Writers, 1, 1)
      [] scenario = "frame" -> SubSeq(Writers, 1, 1)
      [] scenario = "live" -> SubSeq(Writers, 1, 1)
      [] scenario = "builder" -> SubSeq(Writers, 1, 1)
      [] scenario = "payload" -> SubSeq(Writers, 1, 1)

\* the sets of writers whose Init fails
InitFailures ==
    IF scenario = "writers" THEN SUBSET WriterSet ELSE { {} }

\* ------------------------------------------------------------ lifecycle
\* newLogDispatcher: a fresh channel, Init of every writer, the worker started
newLogDispatcher(lws, fails) ==
    /\ ld' = TRUE
    /\ logMessageCh' = << >>
    /\ chClosed' = FALSE
    /\ done' = FALSE
    /\ logWriters' = initWriters(lws, fails)
    /\ initErr' = initError(lws, fails)
    /\ initFailed' = { lws[i] : i \in 1..Len(lws) } \cap fails
    /\ wpc' = "select"
    /\ logMessages' = << >>
    /\ raw' = << >>
    /\ wi' = 0
    /\ final' = FALSE
    /\ flushWriters' = << >>
    /\ flushCalls' = << >>
    /\ failedBatch' = NoIds
    /\ disabled' = {}
    /\ closeCount' = [ w \in WriterSet |-> 0 ]
    /\ closeSnap' = {}
    /\ closeReturned' = FALSE

Accepted == { i \in DOMAIN logRet : logRet[i] = "nil" /\ logged[i] # NilMsg }

\* logDispatcher.close up to <-ld.done: close(ld.logMessageCh) panics on a
\* channel that is closed already
closeChannel(caller, a) ==
    IF chClosed
    THEN /\ panicked' = TRUE
         /\ UNCHANGED << apc, args, chClosed, closeSnap >>
    ELSE /\ chClosed' = TRUE
         /\ apc' = caller
         /\ args' = a
         /\ closeSnap' = Accepted
         /\ UNCHANGED panicked

\* an InitDispatcher that makes the new dispatcher without closing the one
\* there is
InitDispatcher_noClose(lws, fails) ==
    /\ ~panicked
    /\ apc = "idle"
    /\ inits < MaxInits
    /\ inits' = inits + 1
    /\ newLogDispatcher(lws, fails)
    /\ UNCHANGED << apc, args, panicked, flushed >>
    /\ UNCHANGED << config, scenario, builderVars, logHist >>

\* InitDispatcher(logWriters): closes the dispatcher there is, then makes a new
\* one; Init of the writers in fails returns an error
InitDispatcher(lws, fails) ==
    /\ ~panicked
    /\ apc = "idle"
    /\ inits < MaxInits
    /\ inits' = inits + 1
    /\ IF ~ld
       THEN /\ newLogDispatcher(lws, fails)
            /\ UNCHANGED << apc, args, panicked, flushed >>
       ELSE /\ closeChannel("InitDispatcher", [ lws |-> lws, fails |-> fails ])
            /\ UNCHANGED << ld, logMessageCh, done, logWriters, initErr,
                            workerVars, flushHist, initFailed, closeCount,
                            closeReturned >>
    /\ UNCHANGED << config, scenario, builderVars, logHist >>

\* Close(): nothing without a dispatcher, else ld.close()
Close ==
    /\ ~panicked
    /\ apc = "idle"
    /\ IF ~ld
       THEN UNCHANGED << apc, args, panicked, chClosed, closeSnap >>
       ELSE closeChannel("Close", args)
    /\ UNCHANGED << config, scenario, builderVars, ld, logMessageCh, done, logWriters, initErr,
                    workerVars, flushHist, logHist, inits, initFailed,
                    closeCount, closeReturned >>

\* a close that does not wait for the worker
awaitDone_skipped == TRUE

\* <-ld.done: the receive returns once the worker closed the channel
awaitDone == done

\* logDispatcher.close from <-ld.done on: every writer still registered is
\* closed; Close() returns, InitDispatcher goes on to newLogDispatcher
closeDone ==
    /\ ~panicked
    /\ apc \in { "Close", "InitDispatcher" }
    /\ awaitDone
    /\ apc' = IF apc = "Close" THEN "idle" ELSE "newLogDispatcher"
    /\ closeCount' = closeWriters(logWriters, closeCount)
    /\ closeReturned' = TRUE
    /\ UNCHANGED << config, scenario, builderVars, dispatcherVars, workerVars, flushHist,
                    initFailed, closeSnap, args, panicked, logHist, inits >>

\* InitDispatcher after ld.close() returned: ld, err = newLogDispatcher(...)
InitDispatcherNew ==
    /\ ~panicked
    /\ apc = "newLogDispatcher"
    /\ apc' = "idle"
    /\ newLogDispatcher(args.lws, args.fails)
    /\ UNCHANGED << config, scenario, builderVars, args, panicked, logHist, inits, flushed >>

\* ------------------------------------------------------------- producers
\* a property value: value is what is stored, caller tells whether the
\* caller's SetProperty stored it (else logDispatcher.log did)
stored(caller, value) == [ caller |-> caller, value |-> value ]

\* the keys of the message's properties as logDispatcher.log leaves them
dispatchKeys(m) ==
    m.properties \cup { "type", "timestamp", "severity", "output" }
                 \cup (IF m.trackingID # "" THEN { "trackingID" } ELSE {})

\* the field of the message that logDispatcher.log stores under key k
fieldValue(m, timestamp, k) ==
    CASE k = "type" -> m.logMessageType
      [] k = "timestamp" -> timestamp
      [] k = "severity" -> SetSeverity(m.severity, SeverityTrace)
      [] k = "output" -> m.output
      [] k = "trackingID" -> m.trackingID

\* a log() that leaves a key alone once the caller stored a value under it
dispatchProperties_keep(m, timestamp) ==
    [ k \in dispatchKeys(m) |->
        IF k \in m.properties THEN stored(TRUE, "v")
        ELSE stored(FALSE, fieldValue(m, timestamp, k)) ]

\* the properties logDispatcher.log queues: whatever the caller stored with
\* SetProperty, then type, timestamp, severity and output set from the
\* message's fields, and trackingID set only when the tracking id is not ""
dispatchProperties(m, timestamp) ==
    [ k \in dispatchKeys(m) |->
        IF \/ k \in { "type", "timestamp", "severity", "output" }
           \/ k = "trackingID" /\ m.trackingID # ""
        THEN stored(FALSE, fieldValue(m, timestamp, k))
        ELSE stored(TRUE, "v") ]

\* the message as logDispatcher.log queues it
queuedMsg(id, m, now) ==
    [ id |-> id,
      logMessageType |-> m.logMessageType,
      severity |-> SetSeverity(m.severity, SeverityTrace),
      timestamp |-> IF m.timestamp = 0 THEN now ELSE m.timestamp,
      marshal |-> m.marshal,
      properties |->
        dispatchProperties(m, IF m.timestamp = 0 THEN now ELSE m.timestamp) ]

\* an entry point without the nil check
notInitialized_never == FALSE

\* LogMsgWithCalldepth: if ld == nil
notInitialized == ~ld

\* what LogMsgWithCalldepth returns for message m; "panic" is the send on a
\* closed channel
logResult(m) ==
    IF notInitialized THEN "ErrNotInitialized"
    ELSE IF m = NilMsg THEN "nil"
    ELSE IF severityAboveMax(SetSeverity(m.severity, SeverityTrace),
                             m.logMessageType, config)
         THEN "ErrSeverityAboveMax"
    ELSE IF chClosed THEN "panic"
    ELSE IF sendReady(logMessageCh) THEN "nil"
    ELSE "ErrChannelFull"

\* a print threshold that lets every severity through
meetsPrintSeverity_always(severity, cfg) == TRUE

\* configStruct.meetsPrintSeverity (printSeverity, meetsPrintMaxSeverity in
\* its callers): the print threshold, which SeverityNotApplied disables
meetsPrintSeverity(severity, cfg) ==
    severity <= cfg.printMaxSeverity /\ cfg.printMaxSeverity # SeverityNotApplied

\* config.isWhitelisted: the type is one of whitelistLogTypes
isWhitelisted(logMessageType, cfg) == logMessageType \in cfg.whitelistLogTypes

\* a log() that prints before it looks at the threshold
printed_early(r, m) ==
    /\ r \in { "nil", "ErrChannelFull", "ErrSeverityAboveMax" }
    /\ m # NilMsg
    /\ Len(m.output) > 0
    /\ meetsPrintSeverity(SetSeverity(m.severity, SeverityTrace), config)

\* printLogMsg in a Log call that returned r: log() prints before it sends,
\* when the message has output and its severity meets the print threshold
printed(r, m) ==
    /\ r \in { "nil", "ErrChannelFull" }
    /\ m # NilMsg
    /\ Len(m.output) > 0
    /\ meetsPrintSeverity(SetSeverity(m.severity, SeverityTrace), config)

\* a send without a default case: the caller waits for room in the buffer
selectDefault_blocking(ch) == Len(ch) < QueueSize

\* select { case ld.logMessageCh <- msg: default: }: with a default case the
\* select never waits, whatever the buffer holds
selectDefault(ch) == TRUE

\* what the model remembers of a message handed to Log: its fields as Log
\* found them and whether its caller asked for SeverityNotApplied in a call
\* on it
logKey(m) ==
    IF m = NilMsg THEN NilMsg
    ELSE [ logMessageType |-> m.logMessageType, severity |-> m.severity,
           output |-> m.output, properties |-> m.properties,
           trackingID |-> m.trackingID,
           notApplied |->
             \E i \in 1..Len(ops) : ops[i].severity = SeverityNotApplied ]

\* the message as a Log call that returned r leaves it in the caller's
\* hands: untouched before there is a dispatcher; else SetSeverity(Trace),
\* and past the drop the timestamp and the reserved properties are set
messageAfterLog(r, m, now) ==
    IF m = NilMsg \/ r = "ErrNotInitialized" THEN m
    ELSE LET s == [ m EXCEPT !.severity = SetSeverity(@, SeverityTrace) ]
         IN IF r = "ErrSeverityAboveMax" THEN s
            ELSE [ s EXCEPT !.timestamp = IF @ = 0 THEN now ELSE @,
                            !.properties = dispatchKeys(m) ]

\* what logged holds of a Log call: the key of the message, and in the
\* scenario of rejected calls the message as given and as left
logEntry(r, m, now) ==
    IF scenario = "frame"
    THEN [ given |-> m, left |-> messageAfterLog(r, m, now) ]
    ELSE logKey(m)

\* the overflow counter after a Log call that returned r
countOverflow(r, counter) ==
    IF r = "ErrChannelFull" THEN counter + 1 ELSE counter

\* LogMsgWithCalldepth(calldepth, msg), and ld.log when there is a dispatcher;
\* now is what time.Now() reads
LogMsgWithCalldepth(m, now) ==
    /\ ~panicked
    /\ nextId <= MsgBudget
    /\ selectDefault(logMessageCh)
    /\ LET r == logResult(m) IN
       IF r = "panic"
       THEN /\ panicked' = TRUE
            /\ UNCHANGED << logMessageCh, logHist, builderVars >>
       ELSE /\ nextId' = nextId + 1
            /\ logged' = logged @@ (nextId :> logEntry(r, m, now))
            /\ logRet' = logRet @@ (nextId :> r)
            /\ duringWrite' = IF scenario = "saturated" /\ wpc = "write"
                              THEN duringWrite \cup { nextId }
                              ELSE duringWrite
            /\ overflowCounter' = countOverflow(r, overflowCounter)
            /\ console' = IF printed(r, m) THEN console \cup { nextId }
                          ELSE console
            /\ msg' = IF scenario = "builder" THEN NoMsg ELSE msg
            /\ ops' = IF scenario = "builder" THEN << >> ELSE ops
            /\ logMessageCh' =
                 IF r = "nil" /\ m # NilMsg
                 THEN Append(logMessageCh, queuedMsg(nextId, m, now))
                 ELSE logMessageCh
            /\ UNCHANGED panicked
    /\ UNCHANGED << config, scenario, ld, chClosed, done, logWriters, initErr,
                    workerVars, apc, args, inits, closeSnap, closeReturned,
                    flushHist, initFailed, closeCount >>

\* ---------------------------------------------------------------- worker
\* a worker that keeps its batch after the flush
flushReturns_keep(fin) ==
    /\ logMessages' = logMessages
    /\ raw' = << >>
    /\ wi' = 0
    /\ final' = FALSE
    /\ wpc' = IF fin THEN "exit" ELSE "select"
    /\ done' = (done \/ fin)

\* writeLogMessages returned: the worker drops its batch; after the final
\* flush it closes ld.done and ends
flushReturns(fin) ==
    /\ logMessages' = << >>
    /\ raw' = << >>
    /\ wi' = 0
    /\ final' = FALSE
    /\ wpc' = IF fin THEN "exit" ELSE "select"
    /\ done' = (done \/ fin)

\* ld.writeLogMessages(logMessages) up to the first WriteLogMessages call
writeLogMessages(fin) ==
    IF logMessages = << >>
    THEN /\ flushReturns(fin)
         /\ UNCHANGED << logWriters, flushHist >>
    ELSE \E sorted \in SortSlice(logMessages) :
           LET r == rawLogMessages(sorted)
               first == NextWriter(logWriters, 1)
           IN /\ flushed' = flushed \cup Ids(logMessages)
              /\ flushWriters' = logWriters
              /\ UNCHANGED << logWriters, failedBatch, disabled >>
              /\ IF first <= Len(logWriters)
                 THEN /\ wpc' = "write"
                      /\ logMessages' = sorted
                      /\ raw' = r
                      /\ wi' = first
                      /\ final' = fin
                      /\ flushCalls' = << theCall(logWriters, first, r, timestamps(sorted)) >>
                      /\ UNCHANGED done
                 ELSE /\ flushReturns(fin)
                      /\ flushCalls' = << >>

\* a worker that takes the next event while a flush is still running
workerIdle_always == wpc \in { "select", "write" }

\* for { select {...} }: the worker takes the next event only when the case
\* before, writeLogMessages included, has returned
workerIdle == wpc = "select"

\* a ticker that never fires
WorkerTick_never == FALSE

\* case <-ticker.C
WorkerTick ==
    /\ ~panicked
    /\ workerIdle
    /\ writeLogMessages(FALSE)
    /\ UNCHANGED << config, scenario, builderVars, ld, logMessageCh, chClosed, initErr, apc,
                    args, panicked, logHist, inits, closeSnap, closeReturned,
                    initFailed, closeCount >>

\* a receive that takes the message sent last
WorkerReceive_last ==
    /\ ~panicked
    /\ workerIdle
    /\ logMessageCh # << >>
    /\ logMessages' = Append(logMessages, logMessageCh[Len(logMessageCh)])
    /\ logMessageCh' = SubSeq(logMessageCh, 1, Len(logMessageCh) - 1)
    /\ UNCHANGED << config, scenario, builderVars, ld, chClosed, done, logWriters, initErr, wpc,
                    raw, wi, final, apc, args, panicked, logHist, inits,
                    closeSnap, closeReturned, flushHist, initFailed,
                    closeCount >>

\* case msg, more := <-ld.logMessageCh, a buffered message
WorkerReceive ==
    /\ ~panicked
    /\ workerIdle
    /\ logMessageCh # << >>
    /\ logMessages' = Append(logMessages, Head(logMessageCh))
    /\ logMessageCh' = Tail(logMessageCh)
    /\ UNCHANGED << config, scenario, builderVars, ld, chClosed, done, logWriters, initErr, wpc,
                    raw, wi, final, apc, args, panicked, logHist, inits,
                    closeSnap, closeReturned, flushHist, initFailed,
                    closeCount >>

\* case msg, more := <-ld.logMessageCh, the channel closed and drained:
\* msg is nil and more is false
WorkerReceiveClosed ==
    /\ ~panicked
    /\ workerIdle
    /\ logMessageCh = << >>
    /\ chClosed
    /\ writeLogMessages(TRUE)
    /\ UNCHANGED << config, scenario, builderVars, ld, logMessageCh, chClosed, initErr, apc,
                    args, panicked, logHist, inits, closeSnap, closeReturned,
                    initFailed, closeCount >>

\* the returned error is the disable condition, bare or wrapped with %w
returnedDisable(err) ==
    err # NilError /\ err[Len(err)] = ErrWriterDisable[1]

\* a writer removed on any error
afterWrite_anyError(lws, i, err) ==
    IF err # NilError THEN [ lws EXCEPT ![i] = Nil ] ELSE lws

\* the writer's reaction to an error of WriteLogMessages: a writer whose error
\* is ErrWriterDisable is removed
afterWrite(lws, i, err) ==
    IF errorsIs(err, ErrWriterDisable) THEN [ lws EXCEPT ![i] = Nil ] ELSE lws

\* the range loop over ld.logWriters after writer i returned err: an error is
\* printed and the loop goes on with the next writer there is
loopNext_return(lws, i, err) ==
    IF err # NilError THEN Len(lws) + 1 ELSE NextWriter(lws, i + 1)

\* the range loop over ld.logWriters after writer i returned err: the next
\* writer there is, whatever err was
loopNext(lws, i, err) == NextWriter(lws, i + 1)

\* lw.WriteLogMessages(rawLogMessages, timestamps) returns err; the loop goes
\* on to the next writer or writeLogMessages returns
WriteReturn(err) ==
    /\ ~panicked
    /\ wpc = "write"
    /\ LET lw == logWriters[wi]
           lws == afterWrite(logWriters, wi, err)
           next == loopNext(lws, wi, err)
       IN /\ logWriters' = lws
          /\ closeCount' = IF lws[wi] = Nil
                           THEN [ closeCount EXCEPT ![lw] = @ + 1 ]
                           ELSE closeCount
          /\ disabled' = IF returnedDisable(err)
                         THEN disabled \cup { lw } ELSE disabled
          /\ failedBatch' =
               [ failedBatch EXCEPT ![lw] =
                   IF err # NilError /\ ~returnedDisable(err)
                   THEN Ids(raw) ELSE {} ]
          /\ IF next <= Len(lws)
             THEN /\ wi' = next
                  /\ flushCalls' = Append(flushCalls,
                                        theCall(lws, next, raw,
                                                timestamps(logMessages)))
                  /\ UNCHANGED << wpc, logMessages, raw, final, done >>
             ELSE /\ flushReturns(final)
                  /\ UNCHANGED flushCalls
    /\ UNCHANGED << config, scenario, builderVars, ld, logMessageCh, chClosed, initErr, apc,
                    args, panicked, logHist, inits, closeSnap, closeReturned,
                    flushed, flushWriters, initFailed >>

\* ------------------------------------------------------------- builder
\* NewLogMsg(messageType, options...): severity Trace, no output; the option
\* WithWhitelistFlag sets whitelisted
NewLogMsg(messageType, flag) ==
    /\ ~panicked
    /\ msg = NoMsg
    /\ nextId <= MsgBudget
    /\ msg' = [ logMessageType |-> messageType, severity |-> SeverityTrace,
                output |-> << >>, whitelisted |-> flag,
                properties |-> IF flag THEN { "whitelisted" } ELSE {} ]
    /\ ops' = << >>
    /\ UNCHANGED << config, scenario, dispatcherVars, workerVars, flushHist,
                    logHist, apc, args, panicked, inits, closeSnap,
                    closeReturned, initFailed, closeCount >>

\* an append-output call that takes the severity handed to it as it is
appendOutput_assign(m, severity, values) ==
    IF values <= 0 THEN m ELSE [ m EXCEPT !.severity = severity ]

\* an append-output call that escalates before it looks at the values
appendOutput_unguarded(m, severity, values) ==
    [ m EXCEPT !.severity = SetSeverity(@, severity) ]

\* the lines an append-output call makes of its values, each line marked
\* with the number of its call on the message: one line for one value, a
\* header line and a line for each value otherwise (values are taken to hold
\* no line break)
outputLines(values) ==
    IF values = 1 THEN << Len(ops) + 1 >>
    ELSE [ i \in 1..(values + 1) |-> Len(ops) + 1 ]

\* logMsg.appendOutput(calldepth, severity, values...): nothing without
\* values; else SetSeverity, and the values are appended to the output when
\* the severity meets the print threshold or the message is whitelisted
appendOutput(m, severity, values) ==
    IF values <= 0 THEN m
    ELSE IF /\ ~meetsPrintSeverity(severity, config)
            /\ ~isWhitelisted(m.logMessageType, config)
            /\ ~m.whitelisted
         THEN [ m EXCEPT !.severity = SetSeverity(@, severity) ]
         ELSE [ m EXCEPT !.severity = SetSeverity(@, severity),
                         !.output = @ \o outputLines(values) ]

\* what ops remembers of a call
theOp(call, severity, values) ==
    [ call |-> call, severity |-> severity, values |-> values ]

\* msg.SetSeverity(severity)
SetSeverityCall(severity) ==
    /\ ~panicked
    /\ msg # NoMsg
    /\ Len(ops) < MaxOps
    /\ msg' = [ msg EXCEPT !.severity = SetSeverity(@, severity) ]
    /\ ops' = Append(ops, theOp("SetSeverity", severity, 0))
    /\ UNCHANGED << config, scenario, dispatcherVars, workerVars, flushHist,
                    logHist, apc, args, panicked, inits, closeSnap,
                    closeReturned, initFailed, closeCount >>

\* msg.Trace(v...) .. msg.Emergency(v...) and msg.AppendOutput(severity, v...)
AppendOutput(severity, values) ==
    /\ ~panicked
    /\ msg # NoMsg
    /\ Len(ops) < MaxOps
    /\ msg' = appendOutput(msg, severity, values)
    /\ ops' = Append(ops, theOp("AppendOutput", severity, values))
    /\ UNCHANGED << config, scenario, dispatcherVars, workerVars, flushHist,
                    logHist, apc, args, panicked, inits, closeSnap,
                    closeReturned, initFailed, closeCount >>

\* msg.Tracef(format, v...) .. msg.Emergencyf(format, v...): the formatted
\* string is the one value handed to appendOutput
AppendOutputf(severity) ==
    /\ ~panicked
    /\ msg # NoMsg
    /\ Len(ops) < MaxOps
    /\ msg' = appendOutput(msg, severity, 1)
    /\ ops' = Append(ops, theOp("AppendOutput", severity, 1))
    /\ UNCHANGED << config, scenario, dispatcherVars, workerVars, flushHist,
                    logHist, apc, args, panicked, inits, closeSnap,
                    closeReturned, initFailed, closeCount >>

\* ------------------------------------------------------- specifications
InitWith(cfgs, b) ==
    /\ config \in cfgs
    /\ scenario = b
    /\ ld = FALSE
    /\ logMessageCh = << >>
    /\ chClosed = FALSE
    /\ done = FALSE
    /\ logWriters = << >>
    /\ initErr = FALSE
    /\ wpc = "none"
    /\ logMessages = << >>
    /\ raw = << >>
    /\ wi = 0
    /\ final = FALSE
    /\ apc = "idle"
    /\ args = [ lws |-> << >>, fails |-> {} ]
    /\ panicked = FALSE
    /\ overflowCounter = 0
    /\ nextId = 1
    /\ inits = 0
    /\ logRet = << >>
    /\ logged = << >>
    /\ duringWrite = {}
    /\ console = {}
    /\ msg = NoMsg
    /\ ops = << >>
    /\ closeSnap = {}
    /\ closeReturned = FALSE
    /\ flushed = {}
    /\ flushWriters = << >>
    /\ flushCalls = << >>
    /\ failedBatch = NoIds
    /\ disabled = {}
    /\ initFailed = {}
    /\ closeCount = [ w \in WriterSet |-> 0 ]

\* the readings of time.Now() that matter to a Log call: any, when the message
\* has no timestamp yet; else the reading is not used
Clock(m) ==
    IF m # NilMsg /\ m.timestamp = 0 THEN 1..MaxTime ELSE { 1 }

Next ==
    \/ \E fails \in InitFailures : InitDispatcher(WriterList, fails)
    \/ InitDispatcherNew
    \/ Close
    \/ closeDone
    \/ \E m \in Inputs : \E now \in Clock(m) : LogMsgWithCalldepth(m, now)
    \/ WorkerTick
    \/ WorkerReceive
    \/ WorkerReceiveClosed
    \/ \E err \in WriteResults : WriteReturn(err)

\* the dispatcher under the default configuration (logMaxSeverity Error) with
\* concurrent producers
Init == InitWith(Configs({ SeverityError }, { { "a" } }), "dispatcher")

Spec == Init /\ [][Next]_vars

\* the worker's scheduling: the ticker keeps firing and the tick is taken, a
\* receive that is ready again and again is taken (select picks among its
\* ready cases at random), and a writer's call returns
WorkerFairness ==
    /\ WF_vars(WorkerTick)
    /\ SF_vars(WorkerReceive)
    /\ SF_vars(WorkerReceiveClosed)
    /\ WF_vars(\E err \in WriteResults : WriteReturn(err))

InitLive == InitWith(Configs({ SeverityError }, { { "a" } }), "live")

SpecLive == InitLive /\ [][Next]_vars /\ WorkerFairness

\* rejected calls on a dispatcher whose queue fills up
InitFrame == InitWith(Configs({ SeverityError }, { { "a" } }), "frame")

SpecFrame == InitFrame /\ [][Next]_vars

\* every threshold and whitelist
InitPolicy ==
    InitWith(Configs(SeverityEmergency..SeverityNotApplied, { {}, { "a" } }),
             "policy")

SpecPolicy == InitPolicy /\ [][Next]_vars

InitWriters == InitWith(Configs({ SeverityError }, { { "a" } }), "writers")

SpecWriters == InitWriters /\ [][Next]_vars

\* producers that outrun the worker
InitSaturated == InitWith(Configs({ SeverityError }, { { "a" } }), "saturated")

SpecSaturated == InitSaturated /\ [][Next]_vars

\* a caller that builds its message call by call, under every print threshold
NextBuilder ==
    \/ \E t \in { "a", "x" } : \E flag \in BOOLEAN : NewLogMsg(t, flag)
    \/ \E severity \in Levels : SetSeverityCall(severity)
    \/ \E severity \in Levels : \E n \in 0..MaxValues : AppendOutput(severity, n)
    \/ \E severity \in Levels \ { SeverityNotApplied } : AppendOutputf(severity)
    \/ Next

InitBuilder ==
    InitWith(ConfigsPrint({ SeverityError }, { { "a" } },
                          { SeverityEmergency, SeverityTrace,
                            SeverityNotApplied }),
             "builder")

SpecBuilder == InitBuilder /\ [][NextBuilder]_vars

\* messages with properties, with and without LOGTHING_WHITELIST_PROPERTIES
InitPayload ==
    InitWith(ConfigsProperties({ SeverityError }, { { "a" } }, { SeverityTrace },
                               { {}, { "foo" } }),
             "payload")

SpecPayload == InitPayload /\ [][Next]_vars

\* ---------------------------------------------------------------- claims
Results(r) == { i \in DOMAIN logRet : logRet[i] = r }

Live(lws) == LET isWriter(w) == w # Nil IN SelectSeq(lws, isWriter)

Sorted(ts) == \A i, j \in 1..Len(ts) : i < j => ts[i] <= ts[j]

\* C1: once ld.close() has returned, every message Log had accepted when
\* Close() was called has been passed to writeLogMessages in some flush batch,
\* and none of them is left in the queue or in the worker's pending batch.
C1_CloseFlushesAccepted ==
    closeReturned =>
        /\ closeSnap \subseteq flushed
        /\ closeSnap \cap Ids(logMessageCh) = {}
        /\ closeSnap \cap Ids(logMessages) = {}

\* C1 witness: Close() returned after Log had accepted two messages
C1_Witness ==
    /\ closeReturned
    /\ apc = "idle"
    /\ Cardinality(closeSnap) >= 2

C3_SeverityRejected ==
    \A i \in DOMAIN logRet :
        ( /\ logged[i] # NilMsg
          /\ logRet[i] # "ErrNotInitialized"
          /\ logged[i].severity > config.logMaxSeverity
          /\ logged[i].logMessageType \notin config.whitelistLogTypes )
        => /\ logRet[i] = "ErrSeverityAboveMax"
           /\ i \notin Ids(logMessageCh) \cup Ids(logMessages) \cup flushed
           /\ \A k \in 1..Len(flushCalls) : i \notin Range(flushCalls[k].batch)

\* C4: a Log call of a message whose type is whitelisted, on a dispatcher
\* whose channel is open and not full, returns nil and appends the message
\* to the queue, whatever the severity and whatever logMaxSeverity.
C4_WhitelistedTypeQueued ==
    [][ ( /\ nextId' = nextId + 1
          /\ ld /\ ~chClosed /\ Len(logMessageCh) < QueueSize
          /\ logged'[nextId] # NilMsg
          /\ logged'[nextId].logMessageType \in config.whitelistLogTypes )
        => /\ logRet'[nextId] = "nil"
           /\ Len(logMessageCh') = Len(logMessageCh) + 1
           /\ logMessageCh'[Len(logMessageCh')].id = nextId ]_vars

\* C4 witness: a Trace message of a whitelisted type was accepted under
\* logMaxSeverity Emergency
C4_Witness ==
    /\ config.logMaxSeverity = SeverityEmergency
    /\ \E i \in DOMAIN logRet :
          /\ logged[i] # NilMsg
          /\ logged[i].logMessageType \in config.whitelistLogTypes
          /\ logged[i].severity = SeverityTrace
          /\ logRet[i] = "nil"
          /\ i \in flushed

\* C5: in every WriteLogMessages call the timestamps are non-decreasing in
\* index order.
C5_TimestampsSorted ==
    \A k \in 1..Len(flushCalls) : Sorted(flushCalls[k].timestamps)

\* C5 witness: a writer is handed a batch in which a message enqueued later
\* precedes one enqueued earlier, with a smaller timestamp, and a message of
\* the batch that failed to marshal is left out
C5_Witness ==
    \E k \in 1..Len(flushCalls) :
        LET c == flushCalls[k] IN
        /\ Len(c.batch) = 2
        /\ c.batch[1] > c.batch[2]
        /\ c.timestamps[1] < c.timestamps[2]
        /\ Len(logMessages) = 3

\* C6: a writer whose WriteLogMessages returned ErrWriterDisable, bare or
\* wrapped, has been closed, is no longer registered, and no WriteLogMessages
\* call on it is in progress in any state after that.
C6_DisabledNeverCalled ==
    \A w \in disabled :
        /\ w \notin Range(logWriters)
        /\ closeCount[w] >= 1
        /\ wpc = "write" => logWriters[wi] # w

\* C6 witness: a flush that began after a writer returned the wrapped disable
\* error is calling another writer
C6_Witness ==
    /\ wpc = "write"
    /\ disabled # {}
    /\ \E i \in 1..Len(flushWriters) : flushWriters[i] = Nil

\* C7: the WriteLogMessages calls of one flush go to the writers registered
\* when the flush began, in registration order, each with the same batch and
\* timestamps, the full marshalled batch; when the flush is over every one of
\* them has been called, whatever the others returned.
C7_EveryWriterSameBatch ==
    LET live == Live(flushWriters) IN
    /\ Len(flushCalls) <= Len(live)
    /\ \A k \in 1..Len(flushCalls) :
          /\ flushCalls[k].writer = live[k]
          /\ flushCalls[k].batch = flushCalls[1].batch
          /\ flushCalls[k].timestamps = flushCalls[1].timestamps
    /\ wpc = "write" => flushCalls[1].batch = IdSeq(raw)
    /\ wpc # "write" => Len(flushCalls) = Len(live)

\* C7 witness: a flush is over in which the first writer disabled itself, the
\* second failed and the third was still called
C7_Witness ==
    /\ wpc # "write"
    /\ Len(flushCalls) = 3
    /\ flushCalls[1].writer \in disabled
    /\ failedBatch[flushCalls[2].writer] # {}
    /\ flushCalls[3].batch # << >>

\* C8: a writer whose last WriteLogMessages call returned an error other
\* than the disable condition is still registered; it is called in the next
\* flush, so that no failure older than the last flush is left when a flush
\* is over; and the batch of a call in progress holds none of the messages of
\* the batch that failed.
C8_FailedWriterKeptNoReplay ==
    \A w \in WriterSet :
        failedBatch[w] # {} =>
            /\ w \in Range(logWriters)
            /\ wpc # "write" =>
                  \E k \in 1..Len(flushCalls) :
                      /\ flushCalls[k].writer = w
                      /\ Range(flushCalls[k].batch) = failedBatch[w]
            /\ (wpc = "write" /\ logWriters[wi] = w) =>
                  Ids(raw) \cap failedBatch[w] = {}

\* C8 witness: a writer that failed in an earlier flush is being called with
\* the next non-empty batch
C8_Witness ==
    /\ wpc = "write"
    /\ failedBatch[logWriters[wi]] # {}
    /\ raw # << >>

\* C9: after InitDispatcher with some failing Init, the error returned is
\* non-nil, there is a dispatcher with its worker, the writers whose Init
\* succeeded are registered in their original relative order, and no
\* WriteLogMessages call goes to a writer whose Init failed.
C9_InitFailureExcludesWriter ==
    LET succeeded(w) == w \notin initFailed
        registered == SelectSeq(WriterList, succeeded)
    IN ld =>
        /\ initErr = (initFailed # {})
        /\ wpc # "none"
        /\ Len(logWriters) = Len(registered)
        /\ \A i \in 1..Len(logWriters) :
              logWriters[i] \in { registered[i], Nil }
        /\ \A k \in 1..Len(flushCalls) : flushCalls[k].writer \notin initFailed

\* C9 witness: the Init of the second of three writers failed, Log accepted a
\* message, and the first and third writer were called in this order
C9_Witness ==
    /\ initFailed = { Writers[2] }
    /\ initErr
    /\ Results("nil") # {}
    /\ Len(flushCalls) = 2
    /\ flushCalls[1].writer = Writers[1]
    /\ flushCalls[2].writer = Writers[3]

\* C10: as long as InitDispatcher has not been called, every Log call has
\* returned ErrNotInitialized, nothing is queued and no writer is called.
C10_NotInitialized ==
    inits = 0 =>
        /\ \A i \in DOMAIN logRet : logRet[i] = "ErrNotInitialized"
        /\ logMessageCh = << >>
        /\ logMessages = << >>
        /\ flushed = {}
        /\ flushCalls = << >>

\* C10 witness: a Log call was made before any InitDispatcher call
C10_Witness ==
    /\ inits = 0
    /\ Results("ErrNotInitialized") # {}

\* C18: in one InitDispatcher..Close lifecycle no writer is closed more than
\* once, a writer whose Init failed is not closed, and when ld.close() has
\* returned every writer whose Init succeeded has been closed exactly once,
\* on disabling itself or by the close.
C18_WriterClosedOnce ==
    /\ \A w \in WriterSet : closeCount[w] <= 1
    /\ \A w \in initFailed : closeCount[w] = 0
    /\ closeReturned =>
          \A w \in Range(WriterList) \ initFailed : closeCount[w] = 1

\* C18 witness: Close() returned on a dispatcher of which one writer had
\* disabled itself and another was still registered
C18_Witness ==
    /\ closeReturned
    /\ apc = "idle"
    /\ disabled # {}
    /\ \E w \in Range(logWriters) : w # Nil /\ closeCount[w] = 1

\* C19 (as claimed): in every WriteLogMessages call two messages with equal
\* timestamps are in the order in which they arrived from the queue, which
\* is the order of their ids.
C19_StableSort ==
    \A k \in 1..Len(flushCalls) :
        LET c == flushCalls[k] IN
        \A i, j \in 1..Len(c.batch) :
            (i < j /\ c.timestamps[i] = c.timestamps[j])
                => c.batch[i] < c.batch[j]

\* C20 (as claimed): with logMaxSeverity = SeverityNotApplied no Log call
\* places a message in the queue.
C20_NotAppliedDisablesLog ==
    config.logMaxSeverity = SeverityNotApplied =>
        /\ logMessageCh = << >>
        /\ Accepted = {}

\* C16: in every state of a dispatcher whose channel is open, the worker
\* being inside a writer with the queue full included, a Log call of any
\* message can complete at once, and it completes with nil, ErrChannelFull or
\* ErrSeverityAboveMax.
C16_LogNeverWaits ==
    (ld /\ ~chClosed /\ ~panicked /\ nextId <= MsgBudget) =>
        \A m \in Inputs :
            /\ ENABLED (\E now \in Clock(m) : LogMsgWithCalldepth(m, now))
            /\ logResult(m) \in { "nil", "ErrChannelFull", "ErrSeverityAboveMax" }

\* C16 witness: while the worker was inside a writer one Log call filled the
\* queue and the next was dropped, and the worker is still inside the writer
C16_Witness ==
    /\ wpc = "write"
    /\ Len(logMessageCh) = QueueSize
    /\ \E i, j \in duringWrite :
          /\ logRet[i] = "nil"
          /\ logRet[j] = "ErrChannelFull"
          /\ i < j

\* C17: while a WriteLogMessages call is in progress no flush starts, the
\* worker's batch does not change, and a call to the next writer is recorded
\* only by the step in which the call in progress returns: at most one call
\* is in progress at any time.
C17_OneWriteAtATime ==
    [][ wpc = "write" =>
          /\ flushed' = flushed
          /\ (logMessages' = logMessages \/ wpc' # "write")
          /\ \/ flushCalls' = flushCalls
             \/ /\ Len(flushCalls') = Len(flushCalls) + 1
                /\ SubSeq(flushCalls', 1, Len(flushCalls)) = flushCalls
                /\ wi' > wi ]_vars

\* C17 witness: the second writer of a flush is being called while an
\* accepted message waits in the queue for the next flush
C17_Witness ==
    /\ wpc = "write"
    /\ Len(flushCalls) = 2
    /\ logMessageCh # << >>

MinSeverity(S) == CHOOSE x \in S : \A y \in S : x <= y

LastOp(o) == o[Len(o)]

OnlyAppends(o) ==
    \A i \in 1..Len(o) : o[i].call = "AppendOutput" /\ o[i].values >= 1

RECURSIVE SeverityAfter(_, _)
SeverityAfter(m, o) ==
    IF o = << >> THEN m.severity
    ELSE SeverityAfter(appendOutput(m, Head(o).severity, Head(o).values), Tail(o))

CallOrders(o) ==
    LET n == Len(o)
        bij == { p \in [1..n -> 1..n] : \A i, j \in 1..n : i # j => p[i] # p[j] }
    IN { [ i \in 1..n |-> o[p[i]] ] : p \in bij }

\* C11: no call on a message moves its severity toward less urgent, and a
\* SetSeverity(level) call leaves the severity at level when level is
\* numerically lower than the current severity and unchanged otherwise.
C11_SetSeverityMonotonic ==
    [][ (msg # NoMsg /\ msg' # NoMsg) =>
          /\ msg'.severity <= msg.severity
          /\ (Len(ops') = Len(ops) + 1 /\ LastOp(ops').call = "SetSeverity") =>
                msg'.severity = IF LastOp(ops').severity < msg.severity
                                THEN LastOp(ops').severity
                                ELSE msg.severity ]_vars

\* C11 witness: SetSeverity(x) then SetSeverity(y) with y less urgent than x
\* left the severity at x
C11_Witness ==
    /\ msg # NoMsg
    /\ Len(ops) = 2
    /\ ops[1].call = "SetSeverity" /\ ops[2].call = "SetSeverity"
    /\ ops[1].severity < ops[2].severity
    /\ ops[2].severity < SeverityTrace
    /\ msg.severity = ops[1].severity

\* C12: after append-output calls with at least one value each on a message
\* made by NewLogMsg, the severity is the minimum of Trace and the severities
\* of the calls, and the calls made in any other order give the same.
C12_SeverityIsMinimum ==
    (msg # NoMsg /\ OnlyAppends(ops)) =>
        /\ msg.severity =
             MinSeverity({ SeverityTrace }
                           \cup { ops[i].severity : i \in 1..Len(ops) })
        /\ \A o \in CallOrders(ops) :
              SeverityAfter([ msg EXCEPT !.severity = SeverityTrace,
                                         !.output = << >> ], o) = msg.severity

\* C12 witness: an Emergency-side call followed by a less urgent one, both
\* more urgent than Trace
C12_Witness ==
    /\ msg # NoMsg
    /\ OnlyAppends(ops)
    /\ Len(ops) = 2
    /\ ops[1].severity < ops[2].severity
    /\ ops[2].severity < SeverityTrace
    /\ msg.severity = ops[1].severity

\* C13: an append-output call without values leaves the message as it was,
\* whatever the severity of the call.
C13_NoValuesNoChange ==
    [][ ( /\ msg # NoMsg
          /\ Len(ops') = Len(ops) + 1
          /\ LastOp(ops').call = "AppendOutput"
          /\ LastOp(ops').values = 0 )
        => msg' = msg ]_vars

\* C13 witness: a call without values and of a severity more urgent than the
\* message's was made on a message that has output
C13_Witness ==
    /\ msg # NoMsg
    /\ Len(ops) = 2
    /\ ops[2].call = "AppendOutput"
    /\ ops[2].values = 0
    /\ ops[2].severity < msg.severity
    /\ Len(msg.output) > 0

\* C15: a message handed to an initialized dispatcher whose severity passes
\* logMaxSeverity but not printMaxSeverity, of a type that is not
\* whitelisted, is queued when the queue has room - Log returns nil and the
\* message is in the queue, in the worker's batch or flushed - and is not
\* printed.
C15_PrintThresholdOnly ==
    \A i \in DOMAIN logRet :
        ( /\ logged[i] # NilMsg
          /\ logRet[i] # "ErrNotInitialized"
          /\ config.logMaxSeverity # SeverityNotApplied
          /\ logged[i].severity <= config.logMaxSeverity
          /\ \/ logged[i].severity > config.printMaxSeverity
             \/ config.printMaxSeverity = SeverityNotApplied
          /\ logged[i].logMessageType \notin config.whitelistLogTypes )
        => /\ logRet[i] \in { "nil", "ErrChannelFull" }
           /\ logRet[i] = "nil" =>
                 i \in Ids(logMessageCh) \cup Ids(logMessages) \cup flushed
           /\ i \notin console

\* C15 witness: a message with output, of severity Error under
\* printMaxSeverity Emergency, was accepted, flushed and not printed
C15_Witness ==
    /\ config.printMaxSeverity = SeverityEmergency
    /\ \E i \in DOMAIN logRet :
          /\ logged[i] # NilMsg
          /\ logged[i].logMessageType \notin config.whitelistLogTypes
          /\ logged[i].severity = SeverityError
          /\ Len(logged[i].output) > 0
          /\ logRet[i] = "nil"
          /\ i \in flushed
          /\ i \notin console

\* C14 (as claimed): when whitelistProperties is not empty, the payload of
\* every message handed to a writer holds only keys that are whitelisted or
\* reserved, and it holds type, timestamp, severity and output.
C14_PayloadRedacted ==
    config.whitelistProperties # {} =>
        \A k \in 1..Len(flushCalls) :
            \A i \in 1..Len(flushCalls[k].payload) :
                /\ DOMAIN flushCalls[k].payload[i]
                     \subseteq config.whitelistProperties \cup ReservedKeys
                /\ { "type", "timestamp", "severity", "output" }
                     \subseteq DOMAIN flushCalls[k].payload[i]

\* C21 (as claimed): a message created with the option WithWhitelistFlag is
\* never rejected for its severity: on a running dispatcher Log queues it
\* (or finds the queue full), whatever its severity, logMaxSeverity and type.
C21_WhitelistFlagQueued ==
    \A i \in DOMAIN logged :
        (logged[i] # NilMsg /\ "whitelisted" \in logged[i].properties) =>
            logRet[i] # "ErrSeverityAboveMax"

\* the messages Log has queued and the worker has not flushed yet
Queued == Range(logMessageCh) \cup Range(logMessages)

\* C22: for every message Log has queued, the properties under the keys
\* type, timestamp, severity and output were stored by log() and equal the
\* message's type, timestamp, severity and output, also when the caller had
\* stored a value of its own under the key with SetProperty.
C22_ReservedKeysOverwritten ==
    \A q \in Queued :
        \A k \in { "type", "timestamp", "severity", "output" } :
            /\ k \in DOMAIN q.properties
            /\ ~q.properties[k].caller
            /\ q.properties[k].value =
                 CASE k = "type" -> logged[q.id].logMessageType
                   [] k = "timestamp" -> q.timestamp
                   [] k = "severity" -> q.severity
                   [] k = "output" -> logged[q.id].output

\* a queued message whose caller had stored values under all four keys
C22_Witness ==
    \E q \in Queued :
        /\ { "type", "timestamp", "severity", "output" }
             \subseteq logged[q.id].properties
        /\ logRet[q.id] = "nil"
        /\ ~q.properties["type"].caller

\* C23 (as claimed): the payload handed to a writer for a message holds the
\* key trackingID exactly when the message's tracking id was not empty at
\* the Log call, whatever the caller stored with SetProperty.
C23_TrackingIDIffSet ==
    \A c \in 1..Len(flushCalls) :
        \A i \in 1..Len(flushCalls[c].payload) :
            ("trackingID" \in DOMAIN flushCalls[c].payload[i])
                <=> (logged[flushCalls[c].batch[i]].trackingID # "")

\* C24: the severity of a message is one of Emergency..Trace (0..7) from
\* NewLogMsg on, whatever SetSeverity and append-output calls (NotApplied
\* included) were made on it, and so is the severity of every message in the
\* queue and in the worker's batch: NotApplied (8) is never dispatched.
C24_SeverityNeverNotApplied ==
    /\ msg # NoMsg => msg.severity \in SeverityEmergency..SeverityTrace
    /\ \A i \in 1..Len(logMessageCh) :
         logMessageCh[i].severity \in SeverityEmergency..SeverityTrace
    /\ \A i \in 1..Len(logMessages) :
         logMessages[i].severity \in SeverityEmergency..SeverityTrace

\* a message on which NotApplied was asked for is in the queue
C24_Witness ==
    /\ Len(logMessageCh) > 0
    /\ logged[logMessageCh[1].id].notApplied
    /\ logMessageCh[1].severity \in SeverityEmergency..SeverityTrace

\* C25: in every WriteLogMessages call of the flush in progress the batch
\* and the timestamps have the same length and timestamps[i] is the
\* timestamp of the message marshalled into batch[i], also when messages of
\* the worker's batch failed to marshal and were left out.
C25_TimestampsParallel ==
    wpc = "write" =>
        \A c \in 1..Len(flushCalls) :
            /\ Len(flushCalls[c].timestamps) = Len(flushCalls[c].batch)
            /\ \A i \in 1..Len(flushCalls[c].batch) :
                 \E q \in Range(logMessages) :
                     /\ q.id = flushCalls[c].batch[i]
                     /\ q.timestamp = flushCalls[c].timestamps[i]

\* a call is in progress for a batch in which a message that failed to
\* marshal is sorted before one, of a later timestamp, that was handed over
C25_Witness ==
    /\ wpc = "write"
    /\ flushCalls # << >>
    /\ \E i, j \in 1..Len(logMessages) :
         /\ i < j
         /\ ~logMessages[i].marshal
         /\ logMessages[j].marshal
         /\ logMessages[i].timestamp < logMessages[j].timestamp
         /\ logMessages[j].id \in Range(flushCalls[1].batch)

\* C26 (as claimed, in the form a finite run refutes): while Close() has
\* been called and has not returned, the worker has a step to take towards
\* the final flush and its completion signal, or Close() can return; there
\* is no state from which Close() never returns.
C26_CloseCanReturn ==
    apc = "Close" =>
        ENABLED ( \/ WorkerReceive
                  \/ WorkerReceiveClosed
                  \/ \E err \in WriteResults : WriteReturn(err)
                  \/ closeDone )

\* C27 (as claimed): an append-output call with at least one value makes
\* the message's output longer by at least one line and keeps the lines
\* that were there, in their order, whatever the severity of the call and
\* the print threshold.
C27_OutputAppendOnly ==
    [][ ( /\ msg # NoMsg
          /\ Len(ops') = Len(ops) + 1
          /\ LastOp(ops').call = "AppendOutput"
          /\ LastOp(ops').values >= 1 )
        => /\ Len(msg'.output) > Len(msg.output)
           /\ SubSeq(msg'.output, 1, Len(msg.output)) = msg.output ]_vars

\* the worker goroutine is running: it has been started and has not returned
WorkerActive == wpc \in { "select", "write" }

\* C28 (as claimed): from InitDispatcher's return to the return of the
\* matching Close() a worker is active.
C28_WorkerUntilCloseReturns ==
    (ld /\ ~closeReturned) => WorkerActive

\* C28 (amended): a worker is started only when none is active, so at most
\* one is active at any time; while there is a dispatcher a worker is active
\* exactly until it has closed ld.done, which close() waits for before it
\* closes the writers and returns; without a dispatcher there is none.
C28_OneWorkerAtATime ==
    [][ /\ ((~ld /\ ld') \/ (apc = "newLogDispatcher" /\ apc' = "idle"))
            => ~WorkerActive
        /\ ld' => (WorkerActive' <=> ~done')
        /\ ~ld' => wpc' = "none"
        /\ closeReturned' => ~WorkerActive' ]_vars

\* the worker of a second dispatcher is active after the first one's ended
C28_Witness ==
    /\ inits = 2
    /\ apc = "idle"
    /\ ld
    /\ WorkerActive
    /\ flushed # {}

\* C29: a flush that starts hands the writers none of the messages of an
\* earlier flush, whatever the writers of that flush returned, and within a
\* flush no writer is called twice: no message goes to the same writer in
\* more than one WriteLogMessages call.
C29_AtMostOncePerWriter ==
    [][ /\ (wpc = "select" /\ wpc' = "write") =>
              Ids(raw') \cap flushed = {}
        /\ \A c, d \in 1..Len(flushCalls') :
              c # d => flushCalls'[c].writer # flushCalls'[d].writer ]_vars

\* a flush is in progress after an earlier one in which a writer's call
\* failed and was not the disable condition
C29_Witness ==
    /\ wpc = "write"
    /\ raw # << >>
    /\ \E w \in WriterSet :
         /\ failedBatch[w] # {}
         /\ failedBatch[w] \subseteq flushed \ Ids(logMessages)
         /\ flushCalls[Len(flushCalls)].writer = w

\* C30 (as claimed): once Close() has returned, a Log call of any message
\* returns a condition to its caller: it does not panic on the closed
\* channel and it does not return nil for a message.
C30_LogAfterCloseReturns ==
    (closeReturned /\ apc = "idle" /\ ~panicked /\ nextId <= MsgBudget) =>
        \A m \in Inputs :
            /\ logResult(m) # "panic"
            /\ (m # NilMsg => logResult(m) # "nil")

\* C31 (as claimed): a Log call that reaches its send while a concurrent
\* Close() has closed the channel and is waiting for the worker does not
\* panic: it returns nil or a condition.
C31_LogDuringCloseReturns ==
    (apc = "Close" /\ chClosed /\ ~closeReturned /\ ~panicked
        /\ nextId <= MsgBudget) =>
        \A m \in Inputs : logResult(m) # "panic"

\* C32 (as claimed): once Close() has returned, neither a second Close()
\* nor a later InitDispatcher() closes the channel again and panics.
C32_ClosedAtMostOnce ==
    (closeReturned /\ apc = "idle" /\ ~panicked) =>
        /\ ~ENABLED (Close /\ panicked')
        /\ ~ENABLED ( /\ \E fails \in InitFailures :
                           InitDispatcher(WriterList, fails)
                      /\ panicked' )

\* C33: when InitDispatcher makes a new dispatcher in place of a running
\* one, the old worker has ended, every message the old dispatcher accepted
\* has been passed to a flush, none is left in the queue or in the worker's
\* batch, and every writer still registered with the old dispatcher has been
\* closed: all of it before the new writers are initialised and before the
\* new dispatcher accepts a message.
C33_OldClosedBeforeNew ==
    [][ (ld /\ ld' /\ ~chClosed' /\ (chClosed \/ inits' # inits)) =>
            /\ wpc = "exit"
            /\ Accepted \subseteq flushed
            /\ logMessageCh = << >>
            /\ logMessages = << >>
            /\ \A w \in Range(logWriters) \ { Nil } : closeCount[w] = 1 ]_vars

\* a second dispatcher is running in place of one that had accepted a
\* message and had a writer registered when InitDispatcher was called
C33_Witness ==
    /\ inits = 2
    /\ apc = "idle"
    /\ ld
    /\ ~chClosed
    /\ ~closeReturned
    /\ Accepted # {}
    /\ Accepted \subseteq flushed
    /\ flushWriters = << >>

\* C34: when a message enters a flush, every message that Log accepted
\* before it is in that flush or was in an earlier one: of two messages
\* accepted one after the other, the second is never flushed before the
\* first, whatever their timestamps.
C34_FlushInArrivalOrder ==
    [][ \A j \in flushed' \ flushed :
            \A i \in Accepted : i < j => i \in flushed' ]_vars

\* a flush is in progress whose batch holds two messages of which the one
\* accepted later has the earlier timestamp
C34_Witness ==
    /\ wpc = "write"
    /\ \E a, b \in Range(logMessages) :
         /\ a.id < b.id
         /\ b.timestamp < a.timestamp
         /\ { a.id, b.id } \subseteq flushed

\* C35: under the worker's fair scheduling, a message that Log accepted is
\* passed to a flush, by a tick of the ticker when Close() is never called,
\* or else the channel has been closed by Close() or InitDispatcher().
C35_AcceptedEventuallyFlushed ==
    \A i \in 1..MaxLiveMsgs :
        (i \in Accepted) ~> (i \in flushed \/ chClosed)

\* a message has been flushed on a dispatcher that was never closed
C35_Witness ==
    /\ inits = 1
    /\ ld
    /\ ~chClosed
    /\ Accepted # {}
    /\ Accepted \subseteq flushed
    /\ logMessages = << >>

\* C36 (as claimed): no WriteLogMessages call hands a writer a batch of
\* zero messages.
C36_NoEmptyBatch ==
    \A c \in 1..Len(flushCalls) : flushCalls[c].batch # << >>

\* C37: the writer of a WriteLogMessages call in progress has not been
\* closed, and a writer that has been closed without having disabled itself
\* was closed by close() after the worker had ended: no call is made on a
\* writer after its Close.
C37_NoWriteAfterClose ==
    /\ wpc = "write" => closeCount[logWriters[wi]] = 0
    /\ \A w \in WriterSet \ disabled : closeCount[w] > 0 => wpc = "exit"

\* Close() has returned and closed a writer that the final flush had called
C37_Witness ==
    /\ closeReturned
    /\ apc = "idle"
    /\ closeSnap # {}
    /\ \E c \in 1..Len(flushCalls) :
         /\ flushCalls[c].writer \notin disabled
         /\ closeCount[flushCalls[c].writer] = 1
         /\ closeSnap \cap Range(flushCalls[c].batch) # {}

\* C38: a Log call that returns ErrNotInitialized or ErrSeverityAboveMax
\* leaves the queue and the overflow counter as they were, prints nothing,
\* and leaves the message's timestamp, properties and output as the caller
\* gave them, also when the message meets the print threshold and the queue
\* is full.
C38_RejectedLogChangesNothing ==
    [][ ( /\ nextId' = nextId + 1
          /\ logRet'[nextId] \in { "ErrNotInitialized", "ErrSeverityAboveMax" } )
        => /\ logMessageCh' = logMessageCh
           /\ overflowCounter' = overflowCounter
           /\ console' = console
           /\ logged'[nextId].left.timestamp = logged'[nextId].given.timestamp
           /\ logged'[nextId].left.properties = logged'[nextId].given.properties
           /\ logged'[nextId].left.output = logged'[nextId].given.output ]_vars

\* the last Log call was rejected for its severity while the queue was full,
\* and its message has output and meets the print threshold
C38_Witness ==
    /\ nextId > 1
    /\ logRet[nextId - 1] = "ErrSeverityAboveMax"
    /\ Len(logMessageCh) = QueueSize
    /\ Len(logged[nextId - 1].given.output) > 0
    /\ meetsPrintSeverity(logged[nextId - 1].given.severity, config)
    /\ Results("ErrNotInitialized") # {}

\* C39 (as claimed): a dispatcher none of whose writers is left, each
\* disabled or failed in Init, keeps working: Log of a message that passes
\* the log threshold is accepted while the queue has room and never panics,
\* a flush returns without waiting on any writer, and after Close() has been
\* called the worker has a step to take or Close() can return.
C39_WorksWithoutWriters ==
    (ld /\ Live(logWriters) = << >>) =>
        /\ (~chClosed /\ ~panicked /\ nextId <= MsgBudget) =>
               \A m \in Inputs :
                   ( /\ m # NilMsg
                     /\ ~severityAboveMax(SetSeverity(m.severity, SeverityTrace),
                                          m.logMessageType, config) )
                   => /\ logResult(m) \in { "nil", "ErrChannelFull" }
                      /\ Len(logMessageCh) < QueueSize => logResult(m) = "nil"
        /\ wpc # "write"
        /\ apc = "Close" =>
               ENABLED ( \/ WorkerTick
                         \/ WorkerReceive
                         \/ WorkerReceiveClosed
                         \/ closeDone )

====
